---- MODULE Spec2Model ----
(***************************************************************************)
(* The LocationExplorer view of travel-mind-web (src/App.tsx) together     *)
(* with gemini.getNearbyRestaurants (src/services/gemini.ts): the state of *)
(* the view, its event handlers, the asynchronous geolocation request and  *)
(* oracle calls, and the pure pipeline that normalises, measures, filters  *)
(* and sorts the places the oracle returns.                                *)
(*                                                                         *)
(* JavaScript values are tagged records.  Numbers are integers in a unit   *)
(* fixed per field: ratings in tenths of a star (4.5 stars is 45),         *)
(* coordinates in whole degrees, distances in tenths of a kilometre.       *)
(***************************************************************************)
EXTENDS Integers, Sequences, FiniteSets, TLC

(***************************************************************************)
(* Bounds of the model.                                                    *)
(***************************************************************************)
MaxLen == 2          \* longest array the oracle returns
MaxActivations == 2  \* mounts of the view in one run
MaxInflight == 2     \* oracle calls in flight at once, over all activations
MaxRand == 2         \* distinct values Math.random() yields
MaxDeg == 3          \* largest degree of latitude and longitude in the distance runs
MaxSegs == 3         \* most segments of a vicinity

(***************************************************************************)
(* JavaScript values.                                                      *)
(***************************************************************************)
Undefined == [t |-> "undefined"]
Null == [t |-> "null"]
NaN == [t |-> "NaN"]
Infinity == [t |-> "Infinity"]
NegInfinity == [t |-> "-Infinity"]
Num(n) == [t |-> "number", v |-> n]
Str(s) == [t |-> "string", v |-> s]
Arr(s) == [t |-> "array", v |-> s]
LatLng(a, b) == [t |-> "object", lat |-> a, lng |-> b]
ErrorObj(m) == [t |-> "Error", message |-> m]

\* x is null or undefined: the left operand of ?? that yields the right one.
Nullish(x) == x.t \in {"undefined", "null"}

\* ToBoolean(x): the test of ||, ! and if.
Truthy(x) ==
    CASE x.t \in {"undefined", "null", "NaN"} -> FALSE
      [] x.t = "number" -> x.v # 0
      [] x.t = "string" -> x.v # ""
      [] OTHER -> TRUE

\* a || b
Or(a, b) == IF Truthy(a) THEN a ELSE b

\* a ?? b
Coalesce(a, b) == IF Nullish(a) THEN b ELSE a

\* The numeric value of the strings the oracle's records carry: StringToNumber
\* of ECMAScript on the literals of this model.
StringToNumber(s) ==
    CASE s = "" -> Num(0)
      [] s = "4.5" -> Num(45)
      [] OTHER -> NaN

\* ToNumber(x), the coercion applied by -, * and >=.
ToNumber(x) ==
    CASE x.t \in {"number", "NaN", "Infinity", "-Infinity"} -> x
      [] x.t = "undefined" -> NaN
      [] x.t = "null" -> Num(0)
      [] x.t = "string" -> StringToNumber(x.v)
      [] x.t = "array" -> IF x.v = <<>> THEN Num(0) ELSE NaN
      [] OTHER -> NaN

\* a - b
Minus(a, b) ==
    LET x == ToNumber(a)
        y == ToNumber(b)
    IN  CASE x.t = "NaN" \/ y.t = "NaN" -> NaN
          [] x.t = "number" /\ y.t = "number" -> Num(x.v - y.v)
          [] x.t = y.t -> NaN
          [] x.t = "Infinity" \/ y.t = "-Infinity" -> Infinity
          [] OTHER -> NegInfinity

\* a >= b
GreaterEq(a, b) ==
    LET x == ToNumber(a)
        y == ToNumber(b)
    IN  CASE x.t = "NaN" \/ y.t = "NaN" -> FALSE
          [] x.t = "number" /\ y.t = "number" -> x.v >= y.v
          [] x.t = y.t -> TRUE
          [] OTHER -> x.t = "Infinity" \/ y.t = "-Infinity"

\* x.name on a value read from JSON: a TypeError on null and undefined.
CanRead(x) == ~Nullish(x)

(***************************************************************************)
(* getDistance: the haversine formula in fixed point.  Angles are in       *)
(* 10^-5 radian, cosines in 10^-4, the haversine a in 10^-8 and the        *)
(* result in tenths of a kilometre.  Division rounds towards zero, so the  *)
(* arithmetic is odd in its sign as IEEE arithmetic is.  At this           *)
(* resolution and within a few degrees the series of sin and atan reduce   *)
(* to their first term and that of cos to its first two.                   *)
(***************************************************************************)
R == 6371
PiOver180 == 1745

Quot(a, b) == IF a >= 0 THEN a \div b ELSE -((-a) \div b)

RECURSIVE SqrtBetween(_, _, _)
SqrtBetween(n, lo, hi) ==
    IF lo >= hi THEN lo
    ELSE LET mid == (lo + hi + 1) \div 2
         IN  IF mid * mid <= n THEN SqrtBetween(n, mid, hi)
             ELSE SqrtBetween(n, lo, mid - 1)

\* Math.sqrt of a non-negative fixed-point value: the integer square root.
Sqrt(n) == SqrtBetween(n, 0, 10000)

\* Math.sin(x) and Math.cos(x), x in 10^-5 radian.
Sin(x) == x
Cos(x) == 10000 - Quot(Quot(x * x, 100000), 20)

\* Math.atan2(y, x) for y >= 0, x > 0, both in 10^-4; result in 10^-4 radian.
Atan2(y, x) == Quot(y * 10000, x)

\* getDistance, were it to take the cosine of lat1 twice.
getDistanceNumOneCos(lat1, lon1, lat2, lon2) ==
    LET dLat == (lat2 - lat1) * PiOver180
        dLon == (lon2 - lon1) * PiOver180
        sLat == Sin(Quot(dLat, 2))
        sLon == Sin(Quot(dLon, 2))
        a == Quot(sLat * sLat, 100)
             + Quot(Quot(Cos(lat1 * PiOver180) * Cos(lat1 * PiOver180), 10000)
                    * Quot(sLon * sLon, 100), 10000)
        c == 2 * Atan2(Sqrt(a), Sqrt(100000000 - a))
    IN  Quot(R * c, 1000)

getDistanceNum(lat1, lon1, lat2, lon2) ==
    LET dLat == (lat2 - lat1) * PiOver180
        dLon == (lon2 - lon1) * PiOver180
        sLat == Sin(Quot(dLat, 2))
        sLon == Sin(Quot(dLon, 2))
        a == Quot(sLat * sLat, 100)
             + Quot(Quot(Cos(lat1 * PiOver180) * Cos(lat2 * PiOver180), 10000)
                    * Quot(sLon * sLon, 100), 10000)
        c == 2 * Atan2(Sqrt(a), Sqrt(100000000 - a))
    IN  Quot(R * c, 1000)

\* getDistance on JavaScript values: a NaN operand makes the result NaN.
getDistance(lat1, lon1, lat2, lon2) ==
    LET a1 == ToNumber(lat1)
        o1 == ToNumber(lon1)
        a2 == ToNumber(lat2)
        o2 == ToNumber(lon2)
    IN  IF \A x \in {a1, o1, a2, o2} : x.t = "number"
        THEN Num(getDistanceNum(a1.v, o1.v, a2.v, o2.v))
        ELSE NaN

(***************************************************************************)
(* The oracle: what ai.models.generateContent answers.  A response either  *)
(* rejects or carries a text.  A text is a string literal of this model or *)
(* the serialisation of a JSON array, kept with its elements.              *)
(***************************************************************************)
Place(id, name, rating, reviewCount, location, types) ==
    [t |-> "object", placeId |-> id, name |-> name, rating |-> rating,
     reviewCount |-> reviewCount, vicinity |-> Str("1 Main St, Town, MY"),
     location |-> location, types |-> types]

PlaceA == Place(Str("p1"), Str("A"), Num(50), Num(10), LatLng(Num(1), Num(1)), Arr(<<"cafe">>))
PlaceB == Place(Str("p1"), Str("B"), Num(50), Str("many"), LatLng(Num(2), Num(2)), Undefined)
PlaceD == Place(Undefined, Str("D"), Undefined, Undefined, LatLng(Num(1), Num(2)), Undefined)
PlaceE == Place(Str("p5"), Str("E"), Num(45), Num(7), Undefined, Arr(<<>>))
PlaceF == Place(Str("p6"), Undefined, Num(40), Num(3), LatLng(Undefined, Undefined), Arr(<<>>))
PlaceG == Place(Str("p7"), Str("G"), Str("great"), Num(2), LatLng(Num(1), Num(2)), Arr(<<>>))

(***************************************************************************)
(* Vicinities.  A vicinity is kept by its characters, so that splitting    *)
(* and trimming work on what the text holds.                               *)
(***************************************************************************)
Text(chars) == [t |-> "string", chars |-> chars]

MainSt == <<"1", "2", "3", " ", "M", "a", "i", "n", " ", "S", "t">>
Springfield == <<"S", "p", "r", "i", "n", "g", "f", "i", "e", "l", "d">>
IL == <<"I", "L">>
Zip == <<"9", "0", "2", "1", "0">>
Paris == <<"P", "a", "r", "i", "s">>
Segments == {MainSt, Springfield, IL, Zip, Paris}

\* The segments written one after the other, with ", " between them.
RECURSIVE Join(_)
Join(segs) ==
    IF Len(segs) = 1 THEN segs[1]
    ELSE segs[1] \o <<",", " ">> \o Join(Tail(segs))

SegmentLists == UNION {[1..n -> Segments] : n \in 1..MaxSegs}
Vicinities == {Join(segs) : segs \in SegmentLists}

\* vicinity.split(',')
RECURSIVE SplitFrom(_, _)
SplitFrom(s, segment) ==
    IF s = <<>> THEN <<segment>>
    ELSE IF Head(s) = "," THEN <<segment>> \o SplitFrom(Tail(s), <<>>)
    ELSE SplitFrom(Tail(s), Append(segment, Head(s)))
Split(s) == SplitFrom(s, <<>>)

\* String.prototype.trim on characters.
RECURSIVE TrimStart(_)
TrimStart(s) == IF s # <<>> /\ Head(s) = " " THEN TrimStart(Tail(s)) ELSE s
RECURSIVE TrimEnd(_)
TrimEnd(s) ==
    IF s # <<>> /\ s[Len(s)] = " " THEN TrimEnd(SubSeq(s, 1, Len(s) - 1)) ELSE s
TrimChars(s) == TrimEnd(TrimStart(s))

\* The segment is purely numeric: digits and nothing else.
Digits == {"0", "1", "2", "3", "4", "5", "6", "7", "8", "9"}
IsNumeric(segment) ==
    segment # <<>> /\ \A i \in 1..Len(segment) : segment[i] \in Digits

\* The segment is locality-like: not purely numeric and not shorter than 3
\* characters.
Passes(segment) == ~IsNumeric(segment) /\ Len(segment) >= 3

\* The scan from segment i backward, with the second-to-last segment as the
\* fallback.
RECURSIVE ScanBack(_, _)
ScanBack(parts, i) ==
    IF i < 1 THEN parts[Len(parts) - 1]
    ELSE IF Passes(parts[i]) THEN parts[i]
    ELSE ScanBack(parts, i - 1)

\* extractLocality, were its scan to start at the last segment.
extractLocalityFromLast(vicinity) ==
    LET split == Split(vicinity)
        parts == [i \in 1..Len(split) |-> TrimChars(split[i])]
    IN  IF Len(parts) = 1 THEN vicinity
        ELSE IF Passes(parts[Len(parts)]) THEN parts[Len(parts)]
        ELSE ScanBack(parts, Len(parts) - 1)

\* extractLocality(vicinity): the most locality-like segment of a
\* comma-separated address.
extractLocality(vicinity) ==
    LET split == Split(vicinity)
        parts == [i \in 1..Len(split) |-> TrimChars(split[i])]
    IN  IF Len(parts) = 1 THEN vicinity
        ELSE ScanBack(parts, Len(parts) - 1)

OracleElements == {PlaceA, PlaceB, PlaceD, PlaceE, PlaceF, PlaceG}

OracleArrays == UNION {[1..n -> OracleElements] : n \in 0..MaxLen}

ArrayText(elems) == [t |-> "string", v |-> "[...]", elems |-> elems]

OracleTexts ==
    {Undefined, Str("  "), Str("not json"), Str("{}"), Str("null"),
     ArrayText(<<PlaceA, Null>>)}
    \cup {ArrayText(a) : a \in OracleArrays}

OracleRejections == {ErrorObj("Failed to fetch"), Str("aborted")}

Reject(e) == [kind |-> "reject", err |-> e]
Answer(text) == [kind |-> "text", text |-> text]

OracleResponses ==
    {Reject(e) : e \in OracleRejections} \cup {Answer(x) : x \in OracleTexts}

\* The responses of the runs that follow the view through its activations.
CoreResponses ==
    {Reject(e) : e \in OracleRejections}
    \cup {Answer(Str("not json")), Answer(ArrayText(<<>>)), Answer(ArrayText(<<PlaceA>>)),
          Answer(ArrayText(<<PlaceE>>)), Answer(ArrayText(<<PlaceD, PlaceA>>)),
          Answer(ArrayText(<<PlaceD>>))}

\* The outcome of a call: a returned value or a thrown one.
Return(v) == [ok |-> TRUE, value |-> v]
Throw(e) == [ok |-> FALSE, err |-> e]

\* String.prototype.trim on the string literals of this model.
Trim(s) ==
    CASE s = "  " -> ""
      [] s = " sushi " -> "sushi"
      [] OTHER -> s

\* response.text?.trim().replace(/^```json|```$/g, ''): no text of the model
\* carries a code fence, so the replacement leaves the trimmed text.
JsonTextOf(text) ==
    IF Nullish(text) THEN Undefined ELSE [text EXCEPT !.v = Trim(text.v)]

\* JSON.parse on the texts of this model.
JSONParse(text) ==
    CASE text.v = "[...]" -> Return(Arr(text.elems))
      [] text.v = "null" -> Return(Null)
      [] text.v = "{}" -> Return([t |-> "object"])
      [] OTHER -> Throw(ErrorObj("Unexpected token in JSON"))

\* `${x}` for a name.
TemplateText(x) ==
    CASE x.t = "string" -> x.v
      [] x.t = "undefined" -> "undefined"
      [] OTHER -> x.t

\* The callback of places.map in getNearbyRestaurants; random is the value
\* Math.random() would yield for this place.
MapPlace(place, random) ==
    [placeId |-> Or(place.placeId,
                    Str("generated-" \o TemplateText(place.name) \o "-0." \o ToString(random))),
     name |-> place.name,
     rating |-> Or(place.rating, Num(0)),
     reviewCount |-> Or(place.reviewCount, Num(0)),
     vicinity |-> place.vicinity,
     location |-> place.location,
     types |-> Or(place.types, Arr(<<>>))]

\* getNearbyRestaurants once generateContent has settled with response;
\* rnd[i] is the value of Math.random() for the i-th place.
getNearbyRestaurants(response, rnd) ==
    IF response.kind = "reject" THEN Throw(response.err)
    ELSE LET jsonText == JsonTextOf(response.text)
         IN  IF ~Truthy(jsonText) THEN Return(<<>>)
             ELSE LET parsed == JSONParse(jsonText)
                  IN  IF ~parsed.ok THEN Return(<<>>)
                      ELSE LET places == parsed.value
                           IN  IF places.t # "array" THEN Return(<<>>)
                               ELSE IF \E i \in 1..Len(places.v) : ~CanRead(places.v[i])
                               THEN Return(<<>>)
                               ELSE Return([i \in 1..Len(places.v) |->
                                               MapPlace(places.v[i], rnd[i])])

\* The values Math.random() may yield during the mapping of response: one
\* draw for each place without a placeId.
RandomsFor(response) ==
    IF response.kind = "text" /\ response.text.t = "string" /\ response.text.v = "[...]"
    THEN LET elems == response.text.elems
         IN  {rnd \in [1..Len(elems) -> 1..MaxRand] :
                 \A i \in 1..Len(elems) :
                     (CanRead(elems[i]) /\ Truthy(elems[i].placeId)) => rnd[i] = 1}
    ELSE {<<>>}

\* x.p for the properties lat and lng.
GetLat(x) == IF x.t = "object" THEN x.lat ELSE Undefined
GetLng(x) == IF x.t = "object" THEN x.lng ELSE Undefined

\* results.map(r => ({...r, distance: getDistance(...)})) of handleSearch.
AttachDistance(results, location) ==
    IF \E i \in 1..Len(results) : ~CanRead(results[i].location)
    THEN Throw(ErrorObj("Cannot read properties of undefined (reading 'lat')"))
    ELSE Return([i \in 1..Len(results) |->
            [placeId |-> results[i].placeId,
             name |-> results[i].name,
             rating |-> results[i].rating,
             reviewCount |-> results[i].reviewCount,
             vicinity |-> results[i].vicinity,
             location |-> results[i].location,
             types |-> results[i].types,
             distance |-> getDistance(location.latitude, location.longitude,
                                      GetLat(results[i].location),
                                      GetLng(results[i].location))]])

\* err instanceof Error ? err.message : "An unknown error occurred."
ErrorMessage(err) ==
    IF err.t = "Error" THEN Str(err.message) ELSE Str("An unknown error occurred.")

(***************************************************************************)
(* sortedAndFilteredRestaurants.  The pipeline works on the indices of     *)
(* restaurants, so that the oracle's order of two places is the order of   *)
(* their indices.                                                          *)
(***************************************************************************)
\* r => r.rating > minRating, in place of >=.
FilterPredicateStrict(r, min) ==
    GreaterEq(r.rating, Num(min)) /\ ToNumber(r.rating) # Num(min)

\* r => r.rating >= minRating
FilterPredicate(r, min) == GreaterEq(r.rating, Num(min))

RECURSIVE FilterIdx(_, _, _)
FilterIdx(rs, min, i) ==
    IF i > Len(rs) THEN <<>>
    ELSE (IF FilterPredicate(rs[i], min) THEN <<i>> ELSE <<>>) \o FilterIdx(rs, min, i + 1)

\* The comparator with the operands of its rating branch exchanged.
ComparatorAscending(a, b, by) ==
    IF by = "distance"
    THEN Minus(Coalesce(a.distance, Infinity), Coalesce(b.distance, Infinity))
    ELSE Minus(a.rating, b.rating)

\* The comparator handed to sort.
Comparator(a, b, by) ==
    IF by = "distance"
    THEN Minus(Coalesce(a.distance, Infinity), Coalesce(b.distance, Infinity))
    ELSE Minus(b.rating, a.rating)

\* a sorts after b: the comparator's result is positive (NaN counts as +0).
After(a, b, by) ==
    LET v == Comparator(a, b, by)
    IN  (v.t = "number" /\ v.v > 0) \/ v.t = "Infinity"

\* Array.prototype.sort, a stable insertion sort: an element moves left past
\* the elements that sort after it and past no other.
RECURSIVE InsertIdx(_, _, _, _)
InsertIdx(rs, by, sorted, i) ==
    IF sorted # <<>> /\ After(rs[sorted[Len(sorted)]], rs[i], by)
    THEN Append(InsertIdx(rs, by, SubSeq(sorted, 1, Len(sorted) - 1), i),
                sorted[Len(sorted)])
    ELSE Append(sorted, i)

RECURSIVE SortIdx(_, _, _, _)
SortIdx(rs, by, idx, n) ==
    IF n = 0 THEN <<>>
    ELSE InsertIdx(rs, by, SortIdx(rs, by, idx, n - 1), idx[n])

DisplayedIdx(rs, by, min) ==
    LET kept == FilterIdx(rs, min, 1)
    IN  SortIdx(rs, by, kept, Len(kept))

sortedAndFilteredRestaurantsOf(rs, by, min) ==
    LET idx == DisplayedIdx(rs, by, min)
    IN  [k \in 1..Len(idx) |-> rs[idx[k]]]

(***************************************************************************)
(* The state of the view.  mounted tells whether LocationExplorer is the   *)
(* rendered view and act numbers its activations (mounts); the seven       *)
(* useState cells follow; geoPending holds the activations whose           *)
(* getCurrentPosition request has not called back, and inflight the oracle *)
(* calls that have not settled, each with the activation that started it.  *)
(* answer is a history variable: the response the oracle gave to the last  *)
(* search of the live activation, None until that search has settled.      *)
(***************************************************************************)
VARIABLES mounted, act, restaurants, isLoading, error, query, userLocation,
          sortBy, minRating, geoPending, inflight, answer

vars == <<mounted, act, restaurants, isLoading, error, query, userLocation,
          sortBy, minRating, geoPending, inflight, answer>>

None == [kind |-> "none"]

DefaultQuery == "delicious food"
Queries == {DefaultQuery, "sushi", "  ", ""}
SortKeys == {"distance", "rating"}
MinRatingOptions == {0, 30, 40, 45}
Position(lat, lng) == [t |-> "object", latitude |-> Num(lat), longitude |-> Num(lng)]
GeoPositions == {Position(1, 1)}
GeoErrors == {"User denied Geolocation"}

LocationMissingMessage ==
    Str("Location is not available. Please grant permission to access your location.")
EmptyQueryMessage == Str("Please enter a search query.")
GeoErrorMessage(m) ==
    Str("Could not get location: " \o m \o ". Please enable location services.")

\* The useState initialisers of LocationExplorer.
InitialCells ==
    /\ restaurants = <<>>
    /\ isLoading = TRUE
    /\ error = Null
    /\ query = DefaultQuery
    /\ userLocation = Null
    /\ sortBy = "distance"
    /\ minRating = 0

InitialCellsNext ==
    /\ restaurants' = <<>>
    /\ isLoading' = TRUE
    /\ error' = Null
    /\ query' = DefaultQuery
    /\ userLocation' = Null
    /\ sortBy' = "distance"
    /\ minRating' = 0

\* App starts on View.Home: LocationExplorer is not rendered.
Init ==
    /\ mounted = FALSE
    /\ act = 0
    /\ InitialCells
    /\ geoPending = {}
    /\ inflight = <<>>
    /\ answer = None

\* Activation a is live, were the cells of the view shared by its
\* activations.
LiveShared(a) == mounted

\* a is the activation on screen: the setters of its closures take effect.
Live(a) == mounted /\ a = act

\* The list the grid renders.
sortedAndFilteredRestaurants ==
    sortedAndFilteredRestaurantsOf(restaurants, sortBy, minRating)

\* setView(View.LocationExplorer): the view mounts with fresh state and its
\* effect requests the position.
Mount ==
    /\ ~mounted
    /\ act < MaxActivations
    /\ mounted' = TRUE
    /\ act' = act + 1
    /\ InitialCellsNext
    /\ geoPending' = geoPending \cup {act + 1}
    /\ answer' = None
    /\ UNCHANGED inflight

\* setView to another view: the state of the activation is discarded.
Unmount ==
    /\ mounted
    /\ mounted' = FALSE
    /\ InitialCellsNext
    /\ answer' = None
    /\ UNCHANGED <<act, geoPending, inflight>>

\* handleSearch up to its await, were it to test !currentQuery without
\* trimming it.
handleSearchUntrimmed(currentQuery, location, a) ==
    IF ~Truthy(location)
    THEN /\ error' = IF Live(a) THEN LocationMissingMessage ELSE error
         /\ UNCHANGED <<isLoading, inflight>>
    ELSE IF currentQuery = ""
    THEN /\ error' = IF Live(a) THEN EmptyQueryMessage ELSE error
         /\ UNCHANGED <<isLoading, inflight>>
    ELSE /\ isLoading' = IF Live(a) THEN TRUE ELSE isLoading
         /\ error' = IF Live(a) THEN Null ELSE error
         /\ inflight' = Append(inflight,
                               [act |-> a, query |-> currentQuery, location |-> location])

\* handleSearch up to its await, called by activation a; the setters act
\* only while a is live.  Leaves restaurants, query and userLocation to the
\* caller.
handleSearch(currentQuery, location, a) ==
    IF ~Truthy(location)
    THEN /\ error' = IF Live(a) THEN LocationMissingMessage ELSE error
         /\ UNCHANGED <<isLoading, inflight>>
    ELSE IF Trim(currentQuery) = ""
    THEN /\ error' = IF Live(a) THEN EmptyQueryMessage ELSE error
         /\ UNCHANGED <<isLoading, inflight>>
    ELSE /\ isLoading' = IF Live(a) THEN TRUE ELSE isLoading
         /\ error' = IF Live(a) THEN Null ELSE error
         /\ inflight' = Append(inflight,
                               [act |-> a, query |-> currentQuery, location |-> location])

\* The success callback of getCurrentPosition, were it to read the query
\* field as it is when the position arrives.
GeoSuccessCurrentQuery(a, position) ==
    /\ a \in geoPending
    /\ Len(inflight) < MaxInflight
    /\ geoPending' = geoPending \ {a}
    /\ userLocation' = IF Live(a) THEN position ELSE userLocation
    /\ handleSearch(query, position, a)
    /\ answer' = IF Live(a) THEN None ELSE answer
    /\ UNCHANGED <<mounted, act, restaurants, query, sortBy, minRating>>

\* The success callback of getCurrentPosition, were it to search without
\* storing the position.
GeoSuccessKeepingLocation(a, position) ==
    /\ a \in geoPending
    /\ Len(inflight) < MaxInflight
    /\ geoPending' = geoPending \ {a}
    /\ userLocation' = userLocation
    /\ handleSearch(DefaultQuery, position, a)
    /\ answer' = IF Live(a) THEN None ELSE answer
    /\ UNCHANGED <<mounted, act, restaurants, query, sortBy, minRating>>

\* The success callback of getCurrentPosition for activation a.  Its closure
\* holds the query of the first render.
GeoSuccess(a, position) ==
    /\ a \in geoPending
    /\ Len(inflight) < MaxInflight
    /\ geoPending' = geoPending \ {a}
    /\ userLocation' = IF Live(a) THEN position ELSE userLocation
    /\ handleSearch(DefaultQuery, position, a)
    /\ answer' = IF Live(a) THEN None ELSE answer
    /\ UNCHANGED <<mounted, act, restaurants, query, sortBy, minRating>>

\* The error callback of getCurrentPosition, without its setError.
GeoErrorSilent(a, m) ==
    /\ a \in geoPending
    /\ geoPending' = geoPending \ {a}
    /\ error' = error
    /\ isLoading' = IF Live(a) THEN FALSE ELSE isLoading
    /\ UNCHANGED <<mounted, act, restaurants, query, userLocation, sortBy,
                   minRating, inflight, answer>>

\* The error callback of getCurrentPosition, without its setIsLoading(false).
GeoErrorKeepsLoading(a, m) ==
    /\ a \in geoPending
    /\ geoPending' = geoPending \ {a}
    /\ error' = IF Live(a) THEN GeoErrorMessage(m) ELSE error
    /\ isLoading' = isLoading
    /\ UNCHANGED <<mounted, act, restaurants, query, userLocation, sortBy,
                   minRating, inflight, answer>>

\* The error callback of getCurrentPosition for activation a.
GeoError(a, m) ==
    /\ a \in geoPending
    /\ geoPending' = geoPending \ {a}
    /\ error' = IF Live(a) THEN GeoErrorMessage(m) ELSE error
    /\ isLoading' = IF Live(a) THEN FALSE ELSE isLoading
    /\ UNCHANGED <<mounted, act, restaurants, query, userLocation, sortBy,
                   minRating, inflight, answer>>

\* onChange of the query field.
SetQuery(q) ==
    /\ mounted
    /\ query' = q
    /\ UNCHANGED <<mounted, act, restaurants, isLoading, error, userLocation,
                   sortBy, minRating, geoPending, inflight, answer>>

\* The submit button with disabled={!userLocation}.
SubmitEnabledWhileLoading == Truthy(userLocation)

\* The submit button is enabled: disabled={isLoading || !userLocation}.  A
\* form whose submit button is disabled is not submitted.
SubmitEnabled == ~(isLoading \/ ~Truthy(userLocation))

\* onSubmit of the search form.
Submit ==
    /\ mounted
    /\ SubmitEnabled
    /\ Len(inflight) < MaxInflight
    /\ IF Truthy(userLocation)
       THEN handleSearch(query, userLocation, act)
       ELSE UNCHANGED <<isLoading, error, inflight>>
    /\ answer' = None
    /\ UNCHANGED <<mounted, act, restaurants, query, userLocation, sortBy,
                   minRating, geoPending>>

\* onChange of the sort radio buttons, were the recomputation to sort the
\* stored array itself (restaurants.sort(...) without the filter's copy).
SetSortByInPlace(k) ==
    /\ mounted
    /\ sortBy' = k
    /\ restaurants' =
           LET idx == SortIdx(restaurants, k, [i \in 1..Len(restaurants) |-> i],
                              Len(restaurants))
           IN  [i \in 1..Len(restaurants) |-> restaurants[idx[i]]]
    /\ UNCHANGED <<mounted, act, isLoading, error, query, userLocation,
                   minRating, geoPending, inflight, answer>>

\* onChange of the sort radio buttons, were it to search again.
SetSortByAndSearch(k) ==
    /\ mounted
    /\ sortBy' = k
    /\ Len(inflight) < MaxInflight
    /\ handleSearch(query, userLocation, act)
    /\ UNCHANGED <<mounted, act, restaurants, query, userLocation, minRating,
                   geoPending, answer>>

\* onChange of the sort radio buttons.
SetSortBy(k) ==
    /\ mounted
    /\ sortBy' = k
    /\ UNCHANGED <<mounted, act, restaurants, isLoading, error, query,
                   userLocation, minRating, geoPending, inflight, answer>>

\* onChange of the minimum-rating select.
SetMinRating(m) ==
    /\ mounted
    /\ minRating' = m
    /\ UNCHANGED <<mounted, act, restaurants, isLoading, error, query,
                   userLocation, sortBy, geoPending, inflight, answer>>

\* handleSearch from its await on, with setIsLoading(false) at the end of
\* the try block instead of in a finally block.
ResumeWithoutFinally(outcome, location) ==
    LET attached == IF outcome.ok THEN AttachDistance(outcome.value, location)
                    ELSE outcome
    IN  /\ restaurants' = IF attached.ok THEN attached.value ELSE restaurants
        /\ error' = IF attached.ok THEN error ELSE ErrorMessage(attached.err)
        /\ isLoading' = IF attached.ok THEN FALSE ELSE isLoading

\* handleSearch from its await on, with a catch block that also clears the
\* results.
ResumeClearing(outcome, location) ==
    LET attached == IF outcome.ok THEN AttachDistance(outcome.value, location)
                    ELSE outcome
    IN  /\ restaurants' = IF attached.ok THEN attached.value ELSE <<>>
        /\ error' = IF attached.ok THEN error ELSE ErrorMessage(attached.err)
        /\ isLoading' = FALSE

\* handleSearch from its await on, with a catch block that only logs.
ResumeSilently(outcome, location) ==
    LET attached == IF outcome.ok THEN AttachDistance(outcome.value, location)
                    ELSE outcome
    IN  /\ restaurants' = IF attached.ok THEN attached.value ELSE restaurants
        /\ error' = error
        /\ isLoading' = FALSE

\* handleSearch from its await on: the try, catch and finally blocks, for
\* the outcome of gemini.getNearbyRestaurants.
Resume(outcome, location) ==
    LET attached == IF outcome.ok THEN AttachDistance(outcome.value, location)
                    ELSE outcome
    IN  /\ restaurants' = IF attached.ok THEN attached.value ELSE restaurants
        /\ error' = IF attached.ok THEN error ELSE ErrorMessage(attached.err)
        /\ isLoading' = FALSE

\* The i-th oracle call in flight settles with response, were handleSearch
\* to call the oracle again after a rejection.
SettleRetrying(i, response, rnd) ==
    /\ i \in 1..Len(inflight)
    /\ inflight' = IF response.kind = "reject" /\ Live(inflight[i].act)
                   THEN inflight
                   ELSE SubSeq(inflight, 1, i - 1) \o SubSeq(inflight, i + 1, Len(inflight))
    /\ IF Live(inflight[i].act)
       THEN /\ Resume(getNearbyRestaurants(response, rnd), inflight[i].location)
            /\ answer' = response
       ELSE UNCHANGED <<restaurants, error, isLoading, answer>>
    /\ UNCHANGED <<mounted, act, query, userLocation, sortBy, minRating, geoPending>>

\* The i-th oracle call in flight settles with response; handleSearch
\* resumes, to no effect when its activation is gone.
Settle(i, response, rnd) ==
    /\ i \in 1..Len(inflight)
    /\ inflight' = SubSeq(inflight, 1, i - 1) \o SubSeq(inflight, i + 1, Len(inflight))
    /\ IF Live(inflight[i].act)
       THEN /\ Resume(getNearbyRestaurants(response, rnd), inflight[i].location)
            /\ answer' = response
       ELSE UNCHANGED <<restaurants, error, isLoading, answer>>
    /\ UNCHANGED <<mounted, act, query, userLocation, sortBy, minRating, geoPending>>

\* Some oracle call in flight settles with one of responses.
SettleAmong(responses) ==
    \E i \in 1..MaxInflight, r \in responses :
        \E rnd \in RandomsFor(r) : Settle(i, r, rnd)

Next ==
    \/ Mount
    \/ Unmount
    \/ \E a \in 1..MaxActivations, p \in GeoPositions : GeoSuccess(a, p)
    \/ \E a \in 1..MaxActivations, m \in GeoErrors : GeoError(a, m)
    \/ \E q \in Queries : SetQuery(q)
    \/ Submit
    \/ \E k \in SortKeys : SetSortBy(k)
    \/ \E m \in MinRatingOptions : SetMinRating(m)
    \/ SettleAmong(CoreResponses)

\* The view through its activations, over the core responses of the oracle.
Spec == Init /\ [][Next]_vars

\* The first activation once mounted: the state Mount leaves.
PipelineInit ==
    /\ mounted = TRUE
    /\ act = 1
    /\ InitialCells
    /\ geoPending = {1}
    /\ inflight = <<>>
    /\ answer = None

PipelineNext ==
    \/ \E p \in GeoPositions : GeoSuccess(1, p)
    \/ \E k \in SortKeys : SetSortBy(k)
    \/ \E m \in MinRatingOptions : SetMinRating(m)
    \/ SettleAmong(OracleResponses)

\* The automatic first search of an activation, over every response of the
\* oracle, with the sort and filter controls.
PipelineSpec == PipelineInit /\ [][PipelineNext]_vars

\* The coordinates of the distance runs, in whole degrees on both sides of
\* the equator and of the prime meridian.
Degrees == (-1)..MaxDeg
Coordinates == Degrees \X Degrees

\* The positions the geolocation service reports in the distance runs.
GridPositions == {Position(c[1], c[2]) : c \in Coordinates}

\* A place the oracle reports at coordinate c, and the place it reports at
\* the user's own position.
PlaceAt(c) ==
    Place(Str("at " \o ToString(c[1]) \o "," \o ToString(c[2])), Str("N"),
          Num(40), Num(1), LatLng(Num(c[1]), Num(c[2])), Arr(<<>>))
PlaceHere(location) ==
    Place(Str("here"), Str("H"), Num(45), Num(1),
          LatLng(location.latitude, location.longitude), Arr(<<>>))

\* The answers to a search around location: one place anywhere on the grid,
\* alone or followed by a place at the user's own position.
NearbyResponses(location) ==
    {Answer(ArrayText(<<PlaceAt(c)>>)) : c \in Coordinates}
    \cup {Answer(ArrayText(<<PlaceAt(c), PlaceHere(location)>>)) : c \in Coordinates}

\* Some oracle call in flight settles with places around its location.
SettleNearby ==
    \E i \in 1..Len(inflight) :
        \E r \in NearbyResponses(inflight[i].location) :
            \E rnd \in RandomsFor(r) : Settle(i, r, rnd)

DistanceNext ==
    \/ \E p \in GridPositions : GeoSuccess(1, p)
    \/ \E k \in SortKeys : SetSortBy(k)
    \/ \E m \in MinRatingOptions : SetMinRating(m)
    \/ SettleNearby

\* The automatic first search of an activation from every position of the
\* grid, answered with places all over the grid.
DistanceSpec == PipelineInit /\ [][DistanceNext]_vars

\* A place the oracle reports with vicinity v.
PlaceIn(v) ==
    [Place(Str("p1"), Str("A"), Num(50), Num(10), LatLng(Num(1), Num(1)), Arr(<<>>))
        EXCEPT !.vicinity = Text(v)]

LocalityResponses == {Answer(ArrayText(<<PlaceIn(v)>>)) : v \in Vicinities}

LocalityNext ==
    \/ \E p \in GeoPositions : GeoSuccess(1, p)
    \/ SettleAmong(LocalityResponses)

\* The automatic first search of an activation, answered with one place of
\* any vicinity.
LocalitySpec == PipelineInit /\ [][LocalityNext]_vars

TypeOK ==
    /\ mounted \in BOOLEAN
    /\ act \in 0..MaxActivations
    /\ isLoading \in BOOLEAN
    /\ Len(restaurants) <= MaxLen
    /\ query \in Queries
    /\ sortBy \in SortKeys
    /\ minRating \in MinRatingOptions
    /\ geoPending \subseteq 1..MaxActivations
    /\ Len(inflight) <= MaxInflight

(***************************************************************************)
(* Properties.                                                             *)
(***************************************************************************)
\* The oracle calls in flight that activation a started.
CallsOf(a) == {i \in 1..Len(inflight) : inflight[i].act = a}

\* The geolocation request of activation a calls one of its callbacks.
GeoSettles(a) ==
    \/ \E p \in GeoPositions : GeoSuccess(a, p)
    \/ \E m \in GeoErrors : GeoError(a, m)

\* The oracle call of activation a settles.
CallSettles(a) ==
    \E i \in 1..MaxInflight, r \in CoreResponses :
        /\ i \in CallsOf(a)
        /\ \E rnd \in RandomsFor(r) : Settle(i, r, rnd)

\* The view through its activations, where every geolocation request ends in
\* one of its callbacks and every oracle call settles.
FairSpec ==
    /\ Init
    /\ [][Next]_vars
    /\ \A a \in 1..MaxActivations : WF_vars(GeoSettles(a))
    /\ \A a \in 1..MaxActivations : WF_vars(CallSettles(a))

\* The indices of restaurants in the order the grid shows them.
Shown == DisplayedIdx(restaurants, sortBy, minRating)

\* C1: at every moment each activation of the view has at most one oracle call
\* in flight, and while the live activation has one, loading is true, which
\* keeps the submit control disabled until the call settles.
C1_OneCallInFlight ==
    /\ \A a \in 1..MaxActivations : Cardinality(CallsOf(a)) <= 1
    /\ (mounted /\ CallsOf(act) # {}) => (isLoading /\ ~SubmitEnabled)

\* A later search of an activation is in flight after an earlier one settled
\* with results.
C1_Witness ==
    /\ mounted
    /\ restaurants # <<>>
    /\ CallsOf(act) # {}
    /\ isLoading

\* C2: a step of the live activation that changes sortBy or minRating starts
\* no oracle call and leaves restaurants, userLocation, query, isLoading and
\* error as they were.
C2_SortFilterFrame ==
    [][(mounted /\ mounted' /\ act' = act
        /\ (sortBy' # sortBy \/ minRating' # minRating))
       => UNCHANGED <<restaurants, userLocation, query, isLoading, error,
                      inflight, geoPending>>]_vars

\* Both controls have been changed over stored results, and the filter hides
\* some of them.
C2_Witness ==
    /\ mounted
    /\ sortBy = "rating"
    /\ minRating = 45
    /\ Shown # <<>>
    /\ Len(Shown) < Len(restaurants)

\* C3: every displayed place has rating >= minRating, and every stored place
\* with rating >= minRating is displayed (>= as JavaScript evaluates it).
C3_FilterExact ==
    mounted =>
        /\ \A k \in 1..Len(Shown) :
               GreaterEq(restaurants[Shown[k]].rating, Num(minRating))
        /\ \A i \in 1..Len(restaurants) :
               GreaterEq(restaurants[i].rating, Num(minRating))
                   => \E k \in 1..Len(Shown) : Shown[k] = i

\* Under a minimum rating above zero one stored place is displayed and
\* another is hidden.
C3_Witness ==
    /\ mounted
    /\ minRating > 0
    /\ Len(restaurants) = 2
    /\ Len(Shown) = 1

\* The distance a place is sorted by: its distanceKm, or none when no
\* distance could be computed for it.
HasDistance(r) == r.distance.t = "number"

\* C4: under the distance sort the displayed list is in non-decreasing order
\* of distance, a place without a computable distance counting as +infinity
\* and so standing after every place that has one.
C4_DistanceOrder ==
    (mounted /\ sortBy = "distance") =>
        \A k, l \in 1..Len(Shown) :
            k < l =>
                \/ ~HasDistance(restaurants[Shown[l]])
                \/ /\ HasDistance(restaurants[Shown[k]])
                   /\ restaurants[Shown[k]].distance.v <= restaurants[Shown[l]].distance.v

\* C5: under the rating sort the displayed list is in non-increasing order of
\* rating, and places of equal rating stand in the oracle's order.
C5_RatingOrderStable ==
    (mounted /\ sortBy = "rating") =>
        \A k, l \in 1..Len(Shown) :
            k < l =>
                /\ GreaterEq(restaurants[Shown[k]].rating, restaurants[Shown[l]].rating)
                /\ ToNumber(restaurants[Shown[k]].rating) = ToNumber(restaurants[Shown[l]].rating)
                       => Shown[k] < Shown[l]

\* Under the rating sort two distinct places of equal rating are displayed in
\* the oracle's order although the second is the nearer one.
C5_Witness ==
    /\ mounted
    /\ sortBy = "rating"
    /\ Shown = <<1, 2>>
    /\ restaurants[1].rating = restaurants[2].rating
    /\ HasDistance(restaurants[1]) /\ HasDistance(restaurants[2])
    /\ restaurants[1].distance.v > restaurants[2].distance.v

\* C6: no two entries of restaurants carry the same placeId when that placeId
\* is present and non-empty.
C6_UniquePlaceIds ==
    \A i, j \in 1..Len(restaurants) :
        (i < j /\ Truthy(restaurants[i].placeId))
            => restaurants[i].placeId # restaurants[j].placeId

\* The oracle answered the last search with a text, and that text parses as
\* a JSON array of objects.
AnsweredText == mounted /\ answer.kind = "text" /\ answer.text.t = "string"
AnsweredRecords ==
    /\ AnsweredText
    /\ answer.text.v = "[...]"
    /\ \A i \in 1..Len(answer.text.elems) : answer.text.elems[i].t = "object"

\* The text of the last answer is not valid JSON, or is JSON but no array.
AnsweredMalformed ==
    /\ AnsweredText
    /\ Truthy(JsonTextOf(answer.text))
    /\ LET parsed == JSONParse(JsonTextOf(answer.text))
       IN  ~parsed.ok \/ parsed.value.t # "array"

\* C7: once a search has settled on a text that is not valid JSON, or not a
\* JSON array, restaurants is empty and error holds a message.
C7_MalformedPayloadReported ==
    AnsweredMalformed => (restaurants = <<>> /\ error # Null)

\* The last search failed: the oracle call rejected, or a record without a
\* location made the attachment of distances throw.
SearchFailed ==
    /\ mounted
    /\ \/ answer.kind = "reject"
       \/ /\ AnsweredRecords
          /\ \E i \in 1..Len(answer.text.elems) : ~CanRead(answer.text.elems[i].location)

\* C8 as claimed: after a failed search has settled, error holds a message,
\* restaurants is the empty sequence and loading is false.
C8_FailureClearsResults ==
    SearchFailed => (error # Null /\ restaurants = <<>> /\ ~isLoading)

\* C8 as amended: the step in which a failed search settles sets error to a
\* message and loading to false, and leaves restaurants as they were.
C8_FailureKeepsResults ==
    [][(answer' # answer /\ SearchFailed')
       => (error' # Null /\ ~isLoading' /\ restaurants' = restaurants)]_vars

\* A search failed over the results of an earlier one, which are still stored.
C8_Witness ==
    /\ SearchFailed
    /\ restaurants # <<>>
    /\ error # Null
    /\ ~isLoading

\* The record has a name and a location.
Complete(place) == CanRead(place.name) /\ CanRead(place.location)

\* C9: after a search settled on an array of records, restaurants holds, in
\* order, exactly the records that have a name and a location, and no error
\* is raised, whatever the other records lack.
C9_IncompleteRecordsDropped ==
    AnsweredRecords =>
        LET kept == SelectSeq(answer.text.elems, Complete)
        IN  /\ error = Null
            /\ Len(restaurants) = Len(kept)
            /\ \A i \in 1..Len(restaurants) :
                   /\ restaurants[i].name = kept[i].name
                   /\ restaurants[i].location = kept[i].location

\* typeof x === "number"
IsNumber(x) == x.t = "number"

\* C10: every record made from the oracle's array has rating 0 when the
\* oracle's rating is absent or not a number and the oracle's rating
\* otherwise; the same for reviewCount; and types is the empty list when
\* absent and the oracle's types otherwise.
C10_NumericDefaults ==
    (AnsweredRecords /\ error = Null /\ Len(restaurants) = Len(answer.text.elems)) =>
        \A i \in 1..Len(restaurants) :
            LET place == answer.text.elems[i]
            IN  /\ restaurants[i].rating =
                       IF IsNumber(place.rating) THEN place.rating ELSE Num(0)
                /\ restaurants[i].reviewCount =
                       IF IsNumber(place.reviewCount) THEN place.reviewCount ELSE Num(0)
                /\ restaurants[i].types =
                       IF Nullish(place.types) THEN Arr(<<>>) ELSE place.types

\* C11: a search that settles with records stores each record's placeId as
\* the oracle gave it when it gave one, and otherwise a non-empty generated
\* identifier that no other record of the same search and no record stored
\* by the search before it carries.
C11_FallbackIdsUnique ==
    [][(answer' # answer /\ AnsweredRecords' /\ error' = Null
        /\ Len(restaurants') = Len(answer'.text.elems))
       => \A i \in 1..Len(restaurants') :
              IF ~Nullish(answer'.text.elems[i].placeId)
              THEN restaurants'[i].placeId = answer'.text.elems[i].placeId
              ELSE /\ Truthy(restaurants'[i].placeId)
                   /\ \A j \in 1..Len(restaurants') :
                          j # i => restaurants'[j].placeId # restaurants'[i].placeId
                   /\ \A j \in 1..Len(restaurants) :
                          restaurants[j].placeId # restaurants'[i].placeId]_vars

\* C12: in every state of a live activation whose userLocation is absent, the
\* activation has no oracle call in flight, no response has been delivered to
\* it and restaurants is empty.
C12_NoSearchWithoutLocation ==
    (mounted /\ ~Truthy(userLocation))
        => (CallsOf(act) = {} /\ answer = None /\ restaurants = <<>>)

\* Geolocation failed and the user has typed a query: the view stays without
\* a location and without results.
C12_Witness ==
    /\ mounted
    /\ ~Truthy(userLocation)
    /\ act \notin geoPending
    /\ error # Null
    /\ query = "sushi"

\* C13: a submission of the form while the query is empty or only white
\* space sets error to the empty-query message, starts no oracle call and
\* leaves restaurants, isLoading, userLocation, sortBy and minRating as they
\* were.
C13_BlankSubmitStartsNoCall ==
    [][(Submit /\ Trim(query) = "")
       => /\ error' = EmptyQueryMessage
          /\ UNCHANGED <<restaurants, isLoading, userLocation, sortBy,
                         minRating, inflight>>]_vars

\* A blank query was submitted over the results of an earlier search.
C13_Witness ==
    /\ mounted
    /\ Trim(query) = ""
    /\ error = EmptyQueryMessage
    /\ restaurants # <<>>
    /\ inflight = <<>>
    /\ ~isLoading

\* The geolocation request of the live activation has ended in its error
\* callback: the request is settled and no position was stored.
GeoFailed == mounted /\ act \notin geoPending /\ ~Truthy(userLocation)

\* What the view holds after a geolocation error.
GeoFailedOutcome ==
    /\ \E m \in GeoErrors : error = GeoErrorMessage(m)
    /\ ~isLoading
    /\ CallsOf(act) = {}
    /\ restaurants = <<>>

\* C14: a position is requested in the step that mounts the view, once and
\* for the new activation, and in no other step; and from a geolocation
\* error on, the activation holds the error message with loading false, and
\* no later step of it sets userLocation, starts an oracle call or changes
\* the error.
C14_GeolocationOnceAndTerminal ==
    [][/\ (~mounted /\ mounted') => geoPending' \ geoPending = {act'}
       /\ ~(~mounted /\ mounted') => geoPending' \subseteq geoPending
       /\ GeoFailed' => GeoFailedOutcome'
       /\ (GeoFailed /\ mounted' /\ act' = act)
              => (GeoFailed' /\ UNCHANGED <<userLocation, error>>)]_vars

\* After a geolocation error the user has edited the query and changed both
\* controls.
C14_Witness ==
    /\ GeoFailed
    /\ query = "sushi"
    /\ sortBy = "rating"
    /\ minRating = 45

\* The step is the success callback of some geolocation request.
GeoSuccessStep ==
    \E a \in 1..MaxActivations, p \in GeoPositions : GeoSuccess(a, p)

\* C15: the oracle calls in flight grow by one call at a time, and only in
\* the step of a geolocation success or of a form submission; the step
\* that delivers a response, failed or not, ends its call and starts none.
C15_NoAutomaticRetry ==
    [][/\ Len(inflight') > Len(inflight)
              => /\ Len(inflight') = Len(inflight) + 1
                 /\ GeoSuccessStep \/ Submit
       /\ (answer' # answer /\ answer' # None)
              => Len(inflight') = Len(inflight) - 1]_vars

\* A search has failed and nothing is in flight: no call was started for it
\* again.
C15_Witness ==
    /\ mounted
    /\ answer.kind = "reject"
    /\ error # Null
    /\ inflight = <<>>
    /\ ~isLoading

\* {error && <p>...}: the error message is rendered.
ErrorShown == mounted /\ Truthy(error)

\* The paragraph "No restaurants match your filters. ..." is rendered.
NoMatchShown ==
    /\ mounted
    /\ ~isLoading
    /\ Len(sortedAndFilteredRestaurants) = 0
    /\ Len(restaurants) > 0

\* The paragraph "No restaurants found for your search. ..." is rendered.
NoResultsShown ==
    /\ mounted
    /\ ~isLoading
    /\ Len(sortedAndFilteredRestaurants) = 0
    /\ Len(restaurants) = 0
    /\ ~Truthy(error)
    /\ Truthy(userLocation)

\* C16: in every state the view renders at most one of the error message,
\* the "No restaurants match your filters" message and the "No restaurants
\* found for your search" message.
C16_OneStatusMessage ==
    /\ ~(ErrorShown /\ NoMatchShown)
    /\ ~(ErrorShown /\ NoResultsShown)
    /\ ~(NoMatchShown /\ NoResultsShown)

\* Activation a is not the one on screen: the view is unmounted or shows a
\* later activation.
Gone(a) == ~mounted \/ a # act

\* The step settles a geolocation request or an oracle call of an
\* activation that is gone.
StaleStep ==
    \/ \E a \in 1..MaxActivations :
           /\ Gone(a)
           /\ \/ \E p \in GeoPositions : GeoSuccess(a, p)
              \/ \E m \in GeoErrors : GeoError(a, m)
    \/ \E i \in 1..Len(inflight) :
           /\ Gone(inflight[i].act)
           /\ \E r \in CoreResponses : \E rnd \in RandomsFor(r) : Settle(i, r, rnd)

\* C17: every mount of the view starts from the initial cells (no results, no
\* error, no location, distance sort, minimum rating 0), and a geolocation
\* callback or oracle response of an activation that is gone changes no cell
\* of the view.
C17_StateDiesWithActivation ==
    [][/\ (~mounted /\ mounted') => InitialCells'
       /\ StaleStep => UNCHANGED <<mounted, act, restaurants, isLoading, error,
                                   query, userLocation, sortBy, minRating>>]_vars

\* A later activation holds results of its own while an oracle call of an
\* earlier activation is still in flight.
C17_Witness ==
    /\ mounted
    /\ act > 1
    /\ restaurants # <<>>
    /\ \E a \in 1..(act - 1) : CallsOf(a) # {}

\* C18: the distance stored with a place, computed from the user's position
\* to the place, equals getDistance from the place to the user's position.
C18_DistanceSymmetric ==
    (mounted /\ Truthy(userLocation)) =>
        \A i \in 1..Len(restaurants) :
            restaurants[i].distance =
                getDistance(restaurants[i].location.lat, restaurants[i].location.lng,
                            userLocation.latitude, userLocation.longitude)

\* A stored place lies north and west of the user, at a distance above zero.
C18_Witness ==
    /\ mounted
    /\ Truthy(userLocation)
    /\ \E i \in 1..Len(restaurants) :
           /\ restaurants[i].location.lat.v > userLocation.latitude.v
           /\ restaurants[i].location.lng.v < userLocation.longitude.v
           /\ restaurants[i].distance.v > 0

\* The i-th stored place lies at the user's own coordinate.
AtUser(i) ==
    /\ restaurants[i].location.lat = userLocation.latitude
    /\ restaurants[i].location.lng = userLocation.longitude

\* C19: a stored place at the user's own coordinate has distance 0, and when
\* it is displayed under the distance sort, the first displayed place has
\* distance 0: no farther place stands before it.
C19_ZeroDistanceFirst ==
    (mounted /\ Truthy(userLocation)) =>
        \A i \in 1..Len(restaurants) :
            AtUser(i) =>
                /\ restaurants[i].distance = Num(0)
                /\ (sortBy = "distance" /\ \E k \in 1..Len(Shown) : Shown[k] = i)
                       => restaurants[Shown[1]].distance = Num(0)

\* "123 Main St, Springfield, IL"
MainStSpringfieldIL == <<"1", "2", "3", " ", "M", "a", "i", "n", " ", "S", "t", ",", " ", "S", "p", "r", "i", "n", "g", "f", "i", "e", "l", "d", ",", " ", "I", "L">>

\* The segments k of segs before the last that are locality-like.
PassingBeforeLast(segs) == {k \in 1..(Len(segs) - 1) : Passes(segs[k])}

\* The locality the contract names for an address written from segs.
LocalityOf(segs) ==
    IF Len(segs) = 1 THEN segs[1]
    ELSE IF PassingBeforeLast(segs) = {} THEN segs[Len(segs) - 1]
    ELSE segs[CHOOSE k \in PassingBeforeLast(segs) :
                  \A l \in PassingBeforeLast(segs) : l <= k]

\* C20: for the vicinity of every stored place, written from segments with
\* commas between them, extractLocality returns the nearest segment before
\* the last that is neither purely numeric nor shorter than 3 characters;
\* without one, the second-to-last segment; and the whole string when there
\* is one segment.  "123 Main St, Springfield, IL" gives "Springfield" and
\* "Paris" gives "Paris".
C20_LocalityOfVicinity ==
    \A i \in 1..Len(restaurants) :
        LET v == restaurants[i].vicinity.chars
        IN  /\ \E segs \in SegmentLists :
                   Join(segs) = v /\ extractLocality(v) = LocalityOf(segs)
            /\ v = MainStSpringfieldIL => extractLocality(v) = Springfield
            /\ v = Paris => extractLocality(v) = Paris

\* A stored place whose second-to-last segment is a number: the scan skips
\* it and returns the segment before.
C20_Witness ==
    /\ mounted
    /\ restaurants # <<>>
    /\ restaurants[1].vicinity.chars = Join(<<Springfield, Zip, IL>>)
    /\ extractLocality(restaurants[1].vicinity.chars) = Springfield

\* What handleSearch stores for the last delivered response, for the draws
\* rnd of Math.random(): the normalised records with their distances.
FreshResults(rnd) ==
    LET outcome == getNearbyRestaurants(answer, rnd)
    IN  IF outcome.ok THEN AttachDistance(outcome.value, userLocation) ELSE outcome

\* C21: after a search that succeeded, whatever changes of sortBy and
\* minRating followed it, restaurants still holds the oracle's records in the
\* oracle's order, and the displayed list is the one computed afresh from
\* those records and the current sortBy and minRating; so rating ties stand
\* in the oracle's order, not in that of an earlier distance sort.
C21_DisplayDeterministic ==
    (mounted /\ answer # None) =>
        \E rnd \in RandomsFor(answer) :
            LET fresh == FreshResults(rnd)
            IN  fresh.ok =>
                    /\ restaurants = fresh.value
                    /\ sortedAndFilteredRestaurants =
                           sortedAndFilteredRestaurantsOf(fresh.value, sortBy, minRating)

\* Under the rating sort and a minimum rating of 4 the oracle's two places of
\* equal rating are displayed in the oracle's order, the farther one first.
C21_Witness ==
    /\ mounted
    /\ answer # None
    /\ sortBy = "rating"
    /\ minRating = 40
    /\ Len(restaurants) = 2
    /\ Shown = <<1, 2>>
    /\ restaurants[1].rating = restaurants[2].rating
    /\ HasDistance(restaurants[1]) /\ HasDistance(restaurants[2])
    /\ restaurants[1].distance.v > restaurants[2].distance.v

\* C22: the step in which a failed search settles leaves restaurants and the
\* displayed list as they were and renders the error message; and within an
\* activation restaurants changes in no step but the one that delivers the
\* response of a search that did not fail.
C22_FailureKeepsDisplay ==
    [][/\ (answer' # answer /\ SearchFailed')
              => /\ restaurants' = restaurants
                 /\ sortedAndFilteredRestaurants' = sortedAndFilteredRestaurants
                 /\ ErrorShown'
       /\ (mounted /\ mounted' /\ act' = act /\ restaurants' # restaurants)
              => (answer' # answer /\ answer' # None /\ ~SearchFailed')]_vars

\* After a failed search the results of the earlier one are displayed next
\* to the error message, under a minimum rating.
C22_Witness ==
    /\ SearchFailed
    /\ ErrorShown
    /\ minRating > 0
    /\ sortedAndFilteredRestaurants # <<>>
    /\ inflight = <<>>

\* The paragraph "Waiting for location..." is rendered.
WaitingShown == mounted /\ ~isLoading /\ ~Truthy(error) /\ ~Truthy(userLocation)

\* C23: in every state of a live activation, loading false and error absent
\* together imply that userLocation is present: "Waiting for location..." is
\* never rendered.
C23_WaitingUnreachable ==
    /\ (mounted /\ ~isLoading /\ error = Null) => Truthy(userLocation)
    /\ ~WaitingShown

\* A search has settled without error: loading is false, no error is set and
\* the position is stored, the query being the user's own.
C23_Witness ==
    /\ mounted
    /\ ~isLoading
    /\ error = Null
    /\ Truthy(userLocation)
    /\ query = "sushi"
    /\ answer # None

\* C24: when every geolocation request ends in one of its callbacks and every
\* oracle call settles, a live activation whose loading is true, from its
\* mount or from a search, comes to a state where loading is false, unless
\* the view is left before.
C24_LoadingEnds ==
    (mounted /\ isLoading) ~> (~mounted \/ ~isLoading)

\* The first search of an activation failed and loading is false again.
C24_Witness ==
    /\ SearchFailed
    /\ ~isLoading
    /\ restaurants = <<>>
    /\ query = DefaultQuery
    /\ sortBy = "distance"

\* C25: a step that starts an oracle call appends one call; when the step is
\* a geolocation success the call carries the query of the first render,
\* "delicious food", and the position just reported, whatever the query
\* field holds; otherwise it is a submission of the live activation and the
\* call carries the query field's text and the stored userLocation.
C25_QueryOfEachSearch ==
    [][Len(inflight') > Len(inflight)
       => LET call == inflight'[Len(inflight')]
          IN  /\ SubSeq(inflight', 1, Len(inflight)) = inflight
              /\ IF geoPending' # geoPending
                 THEN /\ call.query = DefaultQuery
                      /\ call.act \in geoPending \ geoPending'
                      /\ Live(call.act) => call.location = userLocation'
                 ELSE /\ call.act = act
                      /\ call.query = query
                      /\ call.location = userLocation]_vars

\* The automatic search is in flight with the default query although the
\* query field holds the user's text.
C25_Witness ==
    /\ mounted
    /\ isLoading
    /\ query = "sushi"
    /\ restaurants = <<>>
    /\ error = Null
    /\ \E i \in CallsOf(act) : inflight[i].query = DefaultQuery
====
